---- MODULE Spec2Model ----
(***************************************************************************)
(* Model of dalgebra/commutators/commutator.py:                            *)
(*   GetEquationsForSolution   (the equation assembler)                    *)
(*   generate_polynomial_ansatz (the polynomial ansatz generator)          *)
(* Ring elements, operators and equations are symbolic terms; the model    *)
(* follows the control flow, the argument validation, the order of the     *)
(* calls into the algebra substrate and the shape of the values built.     *)
(***************************************************************************)
EXTENDS Integers, Sequences, FiniteSets, TLC

(* ------------------------------ bounds -------------------------------- *)
MaxN == 3       \* largest operator order n tried
MaxM == 4       \* largest order bound m tried
MaxEq == 2      \* longest list one call of extract returns
MaxAN == 13     \* largest n tried for generate_polynomial_ansatz
MaxD == 11      \* largest degree d tried for generate_polynomial_ansatz

VARIABLES
    pc,         \* position in GetEquationsForSolution (source line) / "done" / "error"
    args,       \* the caller's objects: m, L, n, U, extract, flag_name (never rebound)
    n,          \* local n
    U,          \* local U (list or dict form)
    err,        \* exception raised: [type, line]
    calls,      \* calls made into the substrate / oracle / extract, in order
    stdout,     \* what the call wrote to standard output
    parent_us,  \* unified parent of the values of U
    L,          \* local L after line 163/173 (generic operator)
    C,          \* flag of constants
    diff_base,  \* ring with the flag constants adjoined
    dicU,       \* local U after line 177: slot -> value in diff_base
    Ps, Hs,     \* almost commuting basis and hierarchies
    i,          \* loop variable of line 182
    P, H,       \* linear combinations of lines 191, 193
    j,          \* position of the comprehension of line 195
    eqs,        \* lists returned by extract so far (one per slot)
    result,     \* returned triple
    apc, an, ad, var_names, B, X, ansatz   \* generate_polynomial_ansatz

gvars == <<pc, args, n, U, err, calls, stdout, parent_us, L, C, diff_base,
           dicU, Ps, Hs, i, P, H, j, eqs, result>>
avars == <<apc, an, ad, var_names, B, X, ansatz>>
vars == <<gvars, avars>>

(* --------------------------- python values ---------------------------- *)
\* None, an integer, or something that is not an integer (a string, 2.5, ...)
PyNone == [t |-> "None", v |-> 0]
PyOther == [t |-> "other", v |-> 0]
PyInt(k) == [t |-> "int", v |-> k]

\* `x in ZZ`
InZZ(x) == x.t = "int"

\* elements of rings: ring 0 is a parent without derivation (python int),
\* ring 1 is a differential ring
Elem(r, v) == [ring |-> r, val |-> v]
Elems == {Elem(0, 0), Elem(1, 1), Elem(1, 2)}

\* dictionary keys: integers, or a key that is not an integer
Key(k) == [inZZ |-> TRUE, k |-> k]
BadKey == [inZZ |-> FALSE, k |-> 0]
Keys == {Key(k) : k \in -1 .. MaxN - 1} \cup {BadKey}

\* U as the caller gives it; a dict is a set of <<key, value>> pairs
UNone == [t |-> "None", l |-> <<>>, d |-> {}]
UOther == [t |-> "other", l |-> <<>>, d |-> {}]
UList(s) == [t |-> "list", l |-> s, d |-> {}]
UDict(d) == [t |-> "dict", l |-> <<>>, d |-> d]

Lists == UNION {[1 .. k -> Elems] : k \in 0 .. MaxN}
Dicts == UNION {{{<<k, f[k]>> : k \in D} : f \in [D -> Elems]} : D \in SUBSET Keys}

\* the operator L as the caller gives it (LNone: not given)
LNone == [given |-> FALSE, linear |-> TRUE, normal |-> TRUE, order |-> 0, coef |-> <<>>]
\* coef[k] is the value of L.coefficient(z[k-1]), k = 1 .. order-1
LOps == UNION {{[given |-> TRUE, linear |-> li, normal |-> no, order |-> o, coef |-> c] :
                  li \in BOOLEAN, no \in BOOLEAN, c \in [1 .. o - 1 -> {1, 2}]} :
               o \in 1 .. MaxN}

(* ------------------------------ helpers ------------------------------- *)
Min(a, b) == IF a < b THEN a ELSE b
Max(a, b) == IF a > b THEN a ELSE b

Digit(k) == CASE k = 0 -> "0" [] k = 1 -> "1" [] k = 2 -> "2" [] k = 3 -> "3"
              [] k = 4 -> "4" [] k = 5 -> "5" [] k = 6 -> "6" [] k = 7 -> "7"
              [] k = 8 -> "8" [] k = 9 -> "9"

\* str(k) of a non-negative integer, as the sequence of its characters
RECURSIVE Str(_)
Str(k) == IF k < 10 THEN <<Digit(k)>> ELSE Str(k \div 10) \o <<Digit(k % 10)>>

\* f"{flag_name}_{i}"
FlagName(flag_name, k) == <<flag_name, "_">> \o Str(k)

\* zip(a, b)
Zip(a, b) == [k \in 1 .. Min(Len(a), Len(b)) |-> <<a[k], b[k]>>]

\* sum(list_of_lists, [])
RECURSIVE Concat(_)
Concat(ss) == IF ss = <<>> THEN <<>> ELSE Head(ss) \o Concat(Tail(ss))

DictKeys(d) == {p[1] : p \in d}
\* U.get(k, 0)
DictGet(d, k) == IF \E p \in d : p[1] = Key(k)
                 THEN (CHOOSE p \in d : p[1] = Key(k))[2]
                 ELSE Elem(0, 0)

\* pushout(p, q) of two parents, and membership in the category of d-rings
pushout(p, q) == Max(p, q)
InDRings(p) == p >= 1
\* reduce(lambda p, q: pushout(p, q), (parent(v) for v in U.values()))
RECURSIVE ReducePushout(_)
ReducePushout(d) == LET q == CHOOSE q \in d : TRUE
                    IN IF d = {q} THEN q[2].ring
                       ELSE pushout(ReducePushout(d \ {q}), q[2].ring)

Call(f, a) == [f |-> f, a |-> a]
Raise(type, line) == [type |-> type, line |-> line]
NoErr == Raise("", 0)

\* k copies of the call record c
Repeat(c, k) == [q \in 1 .. k |-> c]

(* ---------------- GetEquationsForSolution: inputs --------------------- *)
MVals == {PyOther} \cup {PyInt(k) : k \in 0 .. MaxM}
NVals == {PyNone, PyOther} \cup {PyInt(k) : k \in 0 .. MaxN}
UVals == {UNone, UOther} \cup {UList(s) : s \in Lists} \cup {UDict(d) : d \in Dicts}
\* the values of n and U tried together with a given L
NWithL == {PyNone, PyInt(2)}
UWithL == {UNone, UList(<<Elem(1, 1)>>), UDict({<<Key(0), Elem(1, 1)>>})}

NoTerm == [op |-> "", n |-> 0, i |-> 0, slot |-> 0, ring |-> 0]
NoResult == [L |-> [of |-> NoTerm, dic |-> <<>>], P |-> <<>>, ideal |-> [gens |-> <<>>]]

InitG ==
    /\ pc = "l131"
    /\ \/ args \in [m : MVals, L : {LNone}, n : NVals, U : UVals,
                    extract : BOOLEAN, flag_name : {"c"}]
       \/ args \in [m : MVals, L : LOps, n : NWithL, U : UWithL,
                    extract : BOOLEAN, flag_name : {"c"}]
    /\ n = args.n
    /\ U = args.U
    /\ err = NoErr
    /\ calls = <<>>
    /\ stdout = <<>>
    /\ parent_us = 0
    /\ L = NoTerm
    /\ C = <<>>
    /\ diff_base = [base |-> 0, consts |-> <<>>]
    /\ dicU = <<>>
    /\ Ps = <<>>
    /\ Hs = <<>>
    /\ i = 0
    /\ P = <<>>
    /\ H = <<>>
    /\ j = 0
    /\ eqs = <<>>
    /\ result = NoResult

AnsatzIdle ==
    /\ apc = "idle"
    /\ an = 0
    /\ ad = 0
    /\ var_names = <<>>
    /\ B = <<>>
    /\ X = <<>>
    /\ ansatz = <<>>

(* ------------- GetEquationsForSolution: lines 131 - 140 --------------- *)
\* FormError with `and` for the `or` of line 133
FormError_and(a) ==
    IF a.L.given
    THEN IF a.U.t # "None" /\ a.n.t # "None" THEN Raise("ValueError", 133)
         ELSE IF ~a.L.linear THEN Raise("TypeError", 135)
         ELSE IF ~a.L.normal THEN Raise("TypeError", 136)
         ELSE NoErr
    ELSE IF a.U.t = "None" \/ a.n.t = "None" THEN Raise("ValueError", 140)
         ELSE NoErr

\* the exception of lines 131-140, NoErr if none
FormError(a) ==
    IF a.L.given
    THEN IF a.U.t # "None" \/ a.n.t # "None" THEN Raise("ValueError", 133)
         ELSE IF ~a.L.linear THEN Raise("TypeError", 135)
         ELSE IF ~a.L.normal THEN Raise("TypeError", 136)
         ELSE NoErr
    ELSE IF a.U.t = "None" \/ a.n.t = "None" THEN Raise("ValueError", 140)
         ELSE NoErr

\* U = [L.parent().base()(L.coefficient(z[i])) for i in range(n-1)]
CoefficientsOf(l) == [k \in 1 .. l.order - 1 |-> Elem(1, l.coef[k])]

CheckForm ==
    /\ pc = "l131"
    /\ IF FormError(args) # NoErr
       THEN /\ pc' = "error"
            /\ err' = FormError(args)
            /\ UNCHANGED <<n, U>>
       ELSE /\ pc' = "l143"
            /\ err' = err
            /\ IF args.L.given
               THEN /\ n' = PyInt(args.L.order)
                    /\ U' = UList(CoefficientsOf(args.L))
               ELSE UNCHANGED <<n, U>>
    /\ UNCHANGED <<args, calls, stdout, parent_us, L, C, diff_base, dicU, Ps, Hs,
                   i, P, H, j, eqs, result, avars>>

(* ------------- GetEquationsForSolution: lines 143 - 153 --------------- *)
MinKey(d) == CHOOSE k \in DictKeys(d) : \A q \in DictKeys(d) : k.k <= q.k
MaxKey(d) == CHOOSE k \in DictKeys(d) : \A q \in DictKeys(d) : k.k >= q.k

\* ArgError with `m <= n` for the `m < n` of line 144
ArgError_mle(nn, mm, UU, extract) ==
    IF ~InZZ(nn) \/ nn.v < 2 THEN Raise("ValueError", 143)
    ELSE IF ~InZZ(mm) \/ mm.v <= nn.v THEN Raise("ValueError", 144)
    ELSE IF UU.t = "list" /\ Len(UU.l) # nn.v - 1 THEN Raise("ValueError", 146)
    ELSE IF UU.t \notin {"list", "dict"} THEN Raise("TypeError", 149)
    ELSE IF UU.t = "dict" /\ (\E k \in DictKeys(UU.d) : ~k.inZZ) THEN Raise("KeyError", 151)
    ELSE IF UU.t = "dict" /\ UU.d = {} THEN Raise("ValueError", 150)
    ELSE IF UU.t = "dict" /\ (MinKey(UU.d).k < 0 \/ MaxKey(UU.d).k > nn.v - 2)
         THEN Raise("KeyError", 151)
    ELSE IF ~extract THEN Raise("TypeError", 153)
    ELSE NoErr

\* the exception of lines 143-153, NoErr if none; min() of an empty dict
\* raises ValueError inside line 150
ArgError(nn, mm, UU, extract) ==
    IF ~InZZ(nn) \/ nn.v < 2 THEN Raise("ValueError", 143)
    ELSE IF ~InZZ(mm) \/ mm.v < nn.v THEN Raise("ValueError", 144)
    ELSE IF UU.t = "list" /\ Len(UU.l) # nn.v - 1 THEN Raise("ValueError", 146)
    ELSE IF UU.t \notin {"list", "dict"} THEN Raise("TypeError", 149)
    ELSE IF UU.t = "dict" /\ (\E k \in DictKeys(UU.d) : ~k.inZZ) THEN Raise("KeyError", 151)
    ELSE IF UU.t = "dict" /\ UU.d = {} THEN Raise("ValueError", 150)
    ELSE IF UU.t = "dict" /\ (MinKey(UU.d).k < 0 \/ MaxKey(UU.d).k > nn.v - 2)
         THEN Raise("KeyError", 151)
    ELSE IF ~extract THEN Raise("TypeError", 153)
    ELSE NoErr

\* ListToDict with the keys 1..len(U) for 0..len(U)-1
ListToDict_shift(l) == {<<Key(k), l[k]>> : k \in 1 .. Len(l)}

\* U = {i: U[i] for i in range(len(U))}
ListToDict(l) == {<<Key(k - 1), l[k]>> : k \in 1 .. Len(l)}

\* Validate with the check of line 153 made after the call of generic_normal
Validate_late ==
    /\ pc = "l143"
    /\ LET e == ArgError(n, args.m, U, args.extract)
       IN IF e # NoErr
          THEN /\ pc' = "error"
               /\ err' = e
               /\ U' = U
               /\ calls' = IF e.line = 153
                           THEN Append(calls, Call("generic_normal", n.v))
                           ELSE calls
          ELSE /\ pc' = "l157"
               /\ err' = err
               /\ U' = IF U.t = "list" THEN UDict(ListToDict(U.l)) ELSE U
               /\ calls' = calls
    /\ UNCHANGED <<args, n, stdout, parent_us, L, C, diff_base, dicU, Ps, Hs,
                   i, P, H, j, eqs, result, avars>>

Validate ==
    /\ pc = "l143"
    /\ LET e == ArgError(n, args.m, U, args.extract)
       IN IF e # NoErr
          THEN /\ pc' = "error"
               /\ err' = e
               /\ U' = U
          ELSE /\ pc' = "l157"
               /\ err' = err
               /\ U' = IF U.t = "list" THEN UDict(ListToDict(U.l)) ELSE U
    /\ UNCHANGED <<args, n, calls, stdout, parent_us, L, C, diff_base, dicU, Ps, Hs,
                   i, P, H, j, eqs, result, avars>>

(* ------------- GetEquationsForSolution: lines 157 - 159 --------------- *)
UnifyParents ==
    /\ pc = "l157"
    /\ parent_us' = ReducePushout(U.d)
    /\ calls' = calls \o Repeat(Call("pushout", 0), Cardinality(U.d) - 1)
    /\ IF ~InDRings(parent_us')
       THEN /\ pc' = "error"
            /\ err' = Raise("TypeError", 159)
       ELSE /\ pc' = "l163"
            /\ err' = err
    /\ UNCHANGED <<args, n, U, stdout, L, C, diff_base, dicU, Ps, Hs,
                   i, P, H, j, eqs, result, avars>>

(* ------------- GetEquationsForSolution: lines 161 - 181 --------------- *)
Term(op, nn, ii, slot, ring) == [op |-> op, n |-> nn, i |-> ii, slot |-> slot, ring |-> ring]
\* x.change_ring(R)
ChangeRing(x, R) == [x EXCEPT !.ring = R]

\* generic_normal(n): the generic operator L_n; its coefficient of z[k] is
\* the generic variable u_k
generic_normal(nn) == Term("L", nn, 0, 0, 0)
GenericCoefficient(nn, k) == Term("u", nn, 0, k, 0)

\* C = [f"{flag_name}_{i}" for i in range(m+1)]
FlagNames(flag_name, mm) == [k \in 1 .. mm + 1 |-> FlagName(flag_name, k - 1)]
\* parent_us.add_constants(*C)
AddConstants(par, names) == [base |-> par, consts |-> names]
\* diff_base(x) for a constant name / for a ring element
ConstIn(R, name) == [ring |-> R, const |-> name]
ElemIn(R, x) == [ring |-> R, val |-> x.val]
\* {u[i]: diff_base(U.get(i, 0)) for i in range(n-1)}, keyed by the slot of u[i]
Substitution(R, d, nn) == [k \in 0 .. nn - 2 |-> ElemIn(R, DictGet(d, k))]

Setup ==
    /\ pc = "l163"
    /\ LET names == FlagNames(args.flag_name, args.m.v)
           R == AddConstants(parent_us, names)
           u == [k \in 1 .. n.v - 1 |-> ChangeRing(GenericCoefficient(n.v, k - 1), R)]
       IN /\ diff_base' = R
          /\ L' = ChangeRing(generic_normal(n.v), R)
          /\ C' = [k \in 1 .. Len(names) |-> ConstIn(R, names[k])]
          /\ stdout' = Append(stdout, u)
          /\ dicU' = Substitution(R, U.d, n.v)
          /\ Ps' = <<Term("one", n.v, 0, 0, R)>>
          /\ Hs' = <<[k \in 1 .. n.v - 1 |-> Term("zero", n.v, 0, 0, R)]>>
    /\ calls' = calls \o <<Call("generic_normal", n.v), Call("add_constants", args.m.v + 1)>>
    /\ i' = 1
    /\ pc' = "l182"
    /\ UNCHANGED <<args, n, U, err, parent_us, P, H, j, eqs, result, avars>>

(* ------------- GetEquationsForSolution: lines 182 - 186 --------------- *)
\* almost_commuting_wilson(n, i): the operator P_i and its n-1 hierarchies
almost_commuting_wilson(nn, ii) ==
    <<Term("P", nn, ii, 0, 0), [k \in 1 .. nn - 1 |-> Term("H", nn, ii, k - 1, 0)]>>

\* WilsonStep querying the oracle at order m for the order i of line 184
WilsonStep_m ==
    /\ pc = "l182"
    /\ i <= args.m.v
    /\ LET r == almost_commuting_wilson(n.v, args.m.v)
           nP == r[1]
           nH == r[2]
       IN /\ Ps' = Append(Ps, ChangeRing(nP, diff_base))
          /\ Hs' = Append(Hs, [k \in 1 .. Len(nH) |-> ChangeRing(nH[k], diff_base)])
    /\ calls' = Append(calls, Call("almost_commuting_wilson", args.m.v))
    /\ i' = i + 1
    /\ UNCHANGED <<pc, args, n, U, err, stdout, parent_us, L, C, diff_base, dicU,
                   P, H, j, eqs, result, avars>>

WilsonStep ==
    /\ pc = "l182"
    /\ i <= args.m.v
    /\ LET r == almost_commuting_wilson(n.v, i)
           nP == r[1]
           nH == r[2]
       IN /\ Ps' = Append(Ps, ChangeRing(nP, diff_base))
          /\ Hs' = Append(Hs, [k \in 1 .. Len(nH) |-> ChangeRing(nH[k], diff_base)])
    /\ calls' = Append(calls, Call("almost_commuting_wilson", i))
    /\ i' = i + 1
    /\ UNCHANGED <<pc, args, n, U, err, stdout, parent_us, L, C, diff_base, dicU,
                   P, H, j, eqs, result, avars>>

(* ------------- GetEquationsForSolution: lines 191 - 193 --------------- *)
\* p(dic=U)
Eval(p, dic) == [of |-> p, dic |-> dic]
\* c*p(dic=U)
Summand(c, p, dic) == [c |-> c, x |-> Eval(p, dic)]
\* sum(c*p(dic=U) for (c,p) in zip(C, Ps))
CombineP(CC, PP, dic) ==
    LET z == Zip(CC, PP) IN [k \in 1 .. Len(z) |-> Summand(z[k][1], z[k][2], dic)]
\* [sum(C[i]*Hs[i][j](dic=U) for i in range(len(C))) for j in range(n-1)]
CombineH(CC, HH, dic, nn) ==
    [jj \in 1 .. nn - 1 |-> [ii \in 1 .. Len(CC) |-> Summand(CC[ii], HH[ii][jj], dic)]]

Combine ==
    /\ pc = "l182"
    /\ i > args.m.v
    /\ P' = CombineP(C, Ps, dicU)
    /\ H' = CombineH(C, Hs, dicU, n.v)
    /\ j' = 0
    /\ pc' = "l195"
    /\ UNCHANGED <<args, n, U, err, calls, stdout, parent_us, L, C, diff_base, dicU,
                   Ps, Hs, i, eqs, result, avars>>

(* ------------- GetEquationsForSolution: lines 195 - 197 --------------- *)
\* h.numerator()
Numerator(h) == [numerator |-> h]
\* what extract may return for slot jj: any list of at most MaxEq equations
ExtractResults(jj) == {[q \in 1 .. k |-> [slot |-> jj, eq |-> q]] : k \in 0 .. MaxEq}

ExtractStep ==
    /\ pc = "l195"
    /\ j < n.v - 1
    /\ \E ret \in ExtractResults(j) :
          eqs' = Append(eqs, [arg |-> Numerator(H[j + 1]), ret |-> ret])
    /\ calls' = Append(calls, Call("extract", j))
    /\ j' = j + 1
    /\ UNCHANGED <<pc, args, n, U, err, stdout, parent_us, L, C, diff_base, dicU,
                   Ps, Hs, i, P, H, result, avars>>

\* Generators adding each list in front of the ones before it
Generators_rev(ee) == Concat([k \in 1 .. Len(ee) |-> ee[Len(ee) + 1 - k].ret])

\* sum([extract(h.numerator()) for h in H], [])
Generators(ee) == Concat([k \in 1 .. Len(ee) |-> ee[k].ret])
\* ideal(H)
ideal(gens) == [gens |-> gens]

Return ==
    /\ pc = "l195"
    /\ j >= n.v - 1
    /\ result' = [L |-> Eval(L, dicU),
                  P |-> P,
                  ideal |-> ideal(Generators(eqs))]
    /\ calls' = Append(calls, Call("ideal", Len(Generators(eqs))))
    /\ pc' = "done"
    /\ UNCHANGED <<args, n, U, err, stdout, parent_us, L, C, diff_base, dicU,
                   Ps, Hs, i, P, H, j, eqs, avars>>

(* ---------------- generate_polynomial_ansatz: lines 213 - 236 --------- *)
\* AnsatzName without the separator between i and j
AnsatzName_nosep(ansatz_var, ii, jj) == <<ansatz_var, "_">> \o Str(ii) \o Str(jj)

\* f"{ansatz_var}_{i}_{j}"
AnsatzName(ansatz_var, ii, jj) == <<ansatz_var, "_">> \o Str(ii) \o <<"_">> \o Str(jj)

\* [f"{ansatz_var}_{i}_{j}" for i in range(n-1) for j in range(d+1)] + [var_name]
VarNames(ansatz_var, var_name, nn, dd) ==
    [k \in 1 .. (nn - 1) * (dd + 1) |->
        AnsatzName(ansatz_var, (k - 1) \div (dd + 1), (k - 1) % (dd + 1))]
    \o <<<<var_name>>>>

\* base_diff(name): the generator of PolynomialRing(base, var_names) with that name
Gen(names, name) ==
    [gen |-> CHOOSE g \in 1 .. Len(names) :
                /\ names[g] = name
                /\ \A q \in 1 .. g - 1 : names[q] # name]

\* [[base_diff(f"{ansatz_var}_{i}_{j}") for j in range(d+1)] for i in range(n-1)]
AnsatzB(names, ansatz_var, nn, dd) ==
    [ii \in 1 .. nn - 1 |->
        [jj \in 1 .. dd + 1 |-> Gen(names, AnsatzName(ansatz_var, ii - 1, jj - 1))]]

\* [base_diff(var_name)**j for j in range(d+1)]
AnsatzX(names, var_name, dd) ==
    [jj \in 1 .. dd + 1 |-> [var |-> Gen(names, <<var_name>>), pow |-> jj - 1]]

\* [sum(b*x for (b,x) in zip(row, X)) for row in B]
AnsatzSum(BB, XX) ==
    [ii \in 1 .. Len(BB) |->
        LET z == Zip(BB[ii], XX)
        IN [k \in 1 .. Len(z) |-> [coef |-> z[k][1], var |-> z[k][2].var, pow |-> z[k][2].pow]]]

GefsIdle ==
    /\ pc = "idle"
    /\ args = [m |-> PyNone, L |-> LNone, n |-> PyNone, U |-> UNone,
               extract |-> FALSE, flag_name |-> "c"]
    /\ n = PyNone
    /\ U = UNone
    /\ err = NoErr
    /\ calls = <<>>
    /\ stdout = <<>>
    /\ parent_us = 0
    /\ L = NoTerm
    /\ C = <<>>
    /\ diff_base = [base |-> 0, consts |-> <<>>]
    /\ dicU = <<>>
    /\ Ps = <<>>
    /\ Hs = <<>>
    /\ i = 0
    /\ P = <<>>
    /\ H = <<>>
    /\ j = 0
    /\ eqs = <<>>
    /\ result = NoResult

InitAnsatz ==
    /\ GefsIdle
    /\ apc = "l225"
    /\ an \in 2 .. MaxAN
    /\ ad \in 0 .. MaxD
    /\ var_names = <<>>
    /\ B = <<>>
    /\ X = <<>>
    /\ ansatz = <<>>

AnsatzNames ==
    /\ apc = "l225"
    /\ var_names' = VarNames("b", "x", an, ad)
    /\ apc' = "l232"
    /\ UNCHANGED <<gvars, an, ad, B, X, ansatz>>

AnsatzCoefficients ==
    /\ apc = "l232"
    /\ B' = AnsatzB(var_names, "b", an, ad)
    /\ apc' = "l233"
    /\ UNCHANGED <<gvars, an, ad, var_names, X, ansatz>>

AnsatzPowers ==
    /\ apc = "l233"
    /\ X' = AnsatzX(var_names, "x", ad)
    /\ apc' = "l236"
    /\ UNCHANGED <<gvars, an, ad, var_names, B, ansatz>>

AnsatzReturn ==
    /\ apc = "l236"
    /\ ansatz' = AnsatzSum(B, X)
    /\ apc' = "done"
    /\ UNCHANGED <<gvars, an, ad, var_names, B, X>>

NextAnsatz ==
    \/ AnsatzNames
    \/ AnsatzCoefficients
    \/ AnsatzPowers
    \/ AnsatzReturn

SpecAnsatz == InitAnsatz /\ [][NextAnsatz]_vars

(* --------------------------- specification ---------------------------- *)
Init == InitG /\ AnsatzIdle

Next ==
    \/ CheckForm
    \/ Validate
    \/ UnifyParents
    \/ Setup
    \/ WilsonStep
    \/ Combine
    \/ ExtractStep
    \/ Return

Spec == Init /\ [][Next]_vars

(* ======================= properties of the code ======================= *)
Terminal == pc \in {"done", "error"}
PastForm == pc # "l131"
PastValidation == pc \notin {"l131", "l143"}
FormLines == {133, 140}
ValidationLines == {143, 144, 146, 149, 150, 151, 153}
UsageLines == FormLines \cup ValidationLines

LGiven == args.L.given
NGiven == args.n.t # "None"
UGiven == args.U.t # "None"

\* the decimal numeral of k < 100, written out
Numeral(k) == IF k < 10 THEN <<Digit(k)>> ELSE <<Digit(k \div 10), Digit(k % 10)>>

(* C2: the call raises at line 133 when L comes with U or with n, raises   *)
(* at line 140 when L is absent and U or n is missing, and gets past the   *)
(* check exactly when L alone, or n and U without L, are given.            *)
C2_ExactlyOneForm ==
    PastForm =>
        /\ (LGiven /\ (UGiven \/ NGiven)) => (pc = "error" /\ err = Raise("ValueError", 133))
        /\ (~LGiven /\ (~UGiven \/ ~NGiven)) => (pc = "error" /\ err = Raise("ValueError", 140))
        /\ (err.line \notin FormLines) <=>
              \/ (LGiven /\ ~UGiven /\ ~NGiven)
              \/ (~LGiven /\ UGiven /\ NGiven)

C2_Witness ==
    /\ pc = "error"
    /\ err = Raise("ValueError", 133)
    /\ LGiven /\ NGiven /\ ~UGiven

\* the arguments other than m are those of a valid call in the (n, U) form
\* whose values lie in a differential ring
InRange(k, nn) == k.inZZ /\ k.k >= 0 /\ k.k <= nn - 2
ValidU(u, nn) ==
    \/ u.t = "list" /\ Len(u.l) = nn - 1 /\ \E k \in 1 .. Len(u.l) : u.l[k].ring >= 1
    \/ /\ u.t = "dict" /\ u.d # {}
       /\ \A k \in DictKeys(u.d) : InRange(k, nn)
       /\ \E q \in u.d : q[2].ring >= 1
ValidButM ==
    /\ ~LGiven
    /\ InZZ(args.n) /\ args.n.v >= 2
    /\ ValidU(args.U, args.n.v)
    /\ args.extract

(* C3: with n >= 2 and the other arguments valid, every integer m < n      *)
(* ends in the ValueError of line 144, every m >= n passes validation and  *)
(* the call builds the flag of the m+1 constants c_0 .. c_m; a call whose  *)
(* n is an integer below 2 always ends in a validation error.              *)
C3_OrderBound ==
    /\ (Terminal /\ ValidButM /\ InZZ(args.m) /\ args.m.v < args.n.v)
          => (pc = "error" /\ err = Raise("ValueError", 144))
    /\ (PastValidation /\ ValidButM /\ InZZ(args.m) /\ args.m.v >= args.n.v)
          => /\ pc # "error"
             /\ pc \in {"l182", "l195", "done"} =>
                   /\ Len(C) = args.m.v + 1
                   /\ Len(diff_base.consts) = args.m.v + 1
                   /\ \A k \in 0 .. args.m.v :
                         /\ C[k + 1].const = <<args.flag_name, "_">> \o Numeral(k)
                         /\ diff_base.consts[k + 1] = C[k + 1].const
    /\ (Terminal /\ InZZ(n) /\ n.v < 2)
          => (pc = "error" /\ err.line \in UsageLines)

C3_Witness ==
    /\ pc = "done"
    /\ ValidButM
    /\ args.m.v = args.n.v
    /\ Len(C) = args.n.v + 1

ValidNM ==
    /\ ~LGiven /\ UGiven
    /\ InZZ(args.n) /\ args.n.v >= 2
    /\ InZZ(args.m) /\ args.m.v >= args.n.v

(* C4: with valid n and m, a list whose length is not n-1 ends in the      *)
(* ValueError of line 146, a dict with a key that is not an integer or is  *)
(* outside 0..n-2 ends in the KeyError of line 151, a U that is neither    *)
(* ends in the TypeError of line 149, and a list of length n-1 is accepted *)
(* and becomes the dict {i: U[i]}.                                         *)
C4_ShapeOfU ==
    (PastValidation /\ ValidNM) =>
        /\ (args.U.t = "list" /\ Len(args.U.l) # args.n.v - 1)
              => (pc = "error" /\ err = Raise("ValueError", 146))
        /\ (args.U.t = "dict" /\ \E k \in DictKeys(args.U.d) : ~InRange(k, args.n.v))
              => (pc = "error" /\ err = Raise("KeyError", 151))
        /\ (args.U.t = "other")
              => (pc = "error" /\ err = Raise("TypeError", 149))
        /\ (args.U.t = "list" /\ Len(args.U.l) = args.n.v - 1)
              => /\ err.line \notin {143, 144, 146, 149, 150, 151}
                 /\ pc # "error" =>
                       /\ U.t = "dict"
                       /\ DictKeys(U.d) = {Key(k) : k \in 0 .. args.n.v - 2}
                       /\ \A k \in 0 .. args.n.v - 2 : <<Key(k), args.U.l[k + 1]>> \in U.d

C4_Witness ==
    /\ pc = "done"
    /\ ValidNM
    /\ args.U.t = "list"
    /\ Len(args.U.l) = 2
    /\ args.U.l[1] # args.U.l[2]

(* C5: when the call ends in a usage error (lines 133 - 153) it has made   *)
(* no call of pushout, generic_normal, add_constants or                    *)
(* almost_commuting_wilson and has built none of their results.            *)
C5_FailFast ==
    (pc = "error" /\ err.line \in UsageLines) =>
        /\ \A k \in 1 .. Len(calls) :
              calls[k].f \notin {"pushout", "generic_normal", "add_constants",
                                 "almost_commuting_wilson"}
        /\ parent_us = 0
        /\ L = NoTerm
        /\ diff_base = [base |-> 0, consts |-> <<>>]
        /\ Ps = <<>>

C5_Witness ==
    /\ pc = "error"
    /\ err = Raise("TypeError", 153)
    /\ Cardinality(U.d) = 2

(* C6: a call writes nothing to standard output.                           *)
C6_NoOutput == stdout = <<>>

(* C7: with valid n, m and extract, every dict whose keys form any subset  *)
(* of 0..n-2 is accepted by the validation, and the substitution maps each *)
(* slot of U to its value and every other slot to zero.                    *)
C7_GapsAllowed ==
    (/\ PastValidation /\ ValidNM /\ args.extract
     /\ args.U.t = "dict"
     /\ \A k \in DictKeys(args.U.d) : InRange(k, args.n.v))
    => /\ err.line \notin ValidationLines
       /\ pc \in {"l182", "l195", "done"} =>
             \A k \in 0 .. args.n.v - 2 :
                IF Key(k) \in DictKeys(args.U.d)
                THEN \E q \in args.U.d : q[1] = Key(k) /\ dicU[k].val = q[2].val
                ELSE dicU[k].val = 0

\* the arguments, in order, of the calls of f
RECURSIVE ArgsOf(_, _)
ArgsOf(f, cs) == IF cs = <<>> THEN <<>>
                 ELSE IF Head(cs).f = f THEN <<Head(cs).a>> \o ArgsOf(f, Tail(cs))
                 ELSE ArgsOf(f, Tail(cs))

FlagConstant(k) == [ring |-> diff_base, const |-> <<args.flag_name, "_">> \o Numeral(k)]

(* C9: a successful call has queried almost_commuting_wilson once for each *)
(* order 1..m, in increasing order; P_0 = 1 and H_0 = (0,..,0) of length   *)
(* n-1; P is the sum over i = 0..m of c_i * P_i(U) and H_j the sum over    *)
(* i = 0..m of c_i * H_i[j](U).                                            *)
C9_BasisPairing ==
    pc = "done" =>
        /\ ArgsOf("almost_commuting_wilson", calls) = [k \in 1 .. args.m.v |-> k]
        /\ Ps[1] = Term("one", n.v, 0, 0, diff_base)
        /\ Hs[1] = [k \in 1 .. n.v - 1 |-> Term("zero", n.v, 0, 0, diff_base)]
        /\ Len(result.P) = args.m.v + 1
        /\ \A k \in 0 .. args.m.v :
              /\ result.P[k + 1].c = FlagConstant(k)
              /\ result.P[k + 1].x.dic = dicU
              /\ result.P[k + 1].x.of =
                    IF k = 0 THEN Term("one", n.v, 0, 0, diff_base)
                    ELSE Term("P", n.v, k, 0, diff_base)
        /\ Len(H) = n.v - 1
        /\ \A s \in 0 .. n.v - 2 :
              /\ Len(H[s + 1]) = args.m.v + 1
              /\ \A k \in 0 .. args.m.v :
                    /\ H[s + 1][k + 1].c = FlagConstant(k)
                    /\ H[s + 1][k + 1].x.dic = dicU
                    /\ H[s + 1][k + 1].x.of =
                          IF k = 0 THEN Term("zero", n.v, 0, 0, diff_base)
                          ELSE Term("H", n.v, k, s, diff_base)

C9_Witness ==
    /\ pc = "done"
    /\ n.v = 2
    /\ args.m.v = 4
    /\ Len(result.P) = 5

\* number of equations returned by extract for the slots before slot s
RECURSIVE Offset(_, _)
Offset(ee, s) == IF s = 0 THEN 0 ELSE Offset(ee, s - 1) + Len(ee[s].ret)

SymbolsOf(ii) == {ansatz[ii][k].coef.gen : k \in 1 .. Len(ansatz[ii])}

(* C8: generate_polynomial_ansatz(base, n, d) returns n-1 expressions, the *)
(* i-th being the sum over j = 0..d of b_i_j * x^j; the (n-1)*(d+1)        *)
(* coefficient symbols are pairwise distinct, entry i holds only the d+1   *)
(* symbols b_i_0..b_i_d and no two entries share a symbol.                 *)
C8_AnsatzBlocks ==
    apc = "done" =>
        /\ Len(ansatz) = an - 1
        /\ \A ii \in 0 .. an - 2 :
              /\ Len(ansatz[ii + 1]) = ad + 1
              /\ \A jj \in 0 .. ad :
                    LET t == ansatz[ii + 1][jj + 1]
                    IN /\ var_names[t.coef.gen] =
                             <<"b", "_">> \o Numeral(ii) \o <<"_">> \o Numeral(jj)
                       /\ var_names[t.var.gen] = <<"x">>
                       /\ t.pow = jj
              /\ Cardinality(SymbolsOf(ii + 1)) = ad + 1
        /\ Cardinality(UNION {SymbolsOf(ii) : ii \in 1 .. an - 1}) = (an - 1) * (ad + 1)
        /\ \A a, b \in 1 .. an - 1 : a # b => SymbolsOf(a) \cap SymbolsOf(b) = {}
        /\ \A a, b \in 1 .. Len(var_names) : a # b => var_names[a] # var_names[b]

C8_Witness ==
    /\ apc = "done"
    /\ an = 3
    /\ ad = 1
    /\ Len(ansatz) = 2
    /\ SymbolsOf(1) = {1, 2}
    /\ SymbolsOf(2) = {3, 4}

====
